---- MODULE Spec2Model ----
(***************************************************************************)
(* Model of box_manager.py: the 'create' and 'prune' verbs acting on the   *)
(* boxes directory and the per-box JSON version list.                      *)
(*                                                                         *)
(* Strings are sequences of one-character strings, so that path joining,   *)
(* normalisation, prefix tests, URL splitting and the str()/int()          *)
(* conversions of version numbers are computed as the code computes them.  *)
(***************************************************************************)
EXTENDS Integers, Sequences, FiniteSets, TLC

VARIABLES pc, op, dirs, files, manifests, full_box_path, new_box_target,
          boxes_to_prune, outcome, start, removed, issued, allCompleted

vars == <<pc, op, dirs, files, manifests, full_box_path, new_box_target,
          boxes_to_prune, outcome, start, removed, issued, allCompleted>>

-----------------------------------------------------------------------------
(* Module-level configuration, lines 48-55 *)

INSTALL_DIR ==
  <<"/", "o", "p", "t", "/", "v", "a", "g", "r", "a", "n", "t", "_", "b", "o", "x", "e", "s">>

VAGRANT_BOXES_PUBLIC_URL ==
  <<"h", "t", "t", "p", ":", "/", "/", "v", "a", "g", "r", "a", "n", "t", ".", "f", "o", "o", "c", "o", "r", "p", ".", "c", "o", "m">>

-----------------------------------------------------------------------------
(* Bounds of the model *)

MaxAppends ==
  3

MaxKeep ==
  2

MaxNegKeep ==
  1

MaxLedgerLen ==
  3

MaxVersion ==
  12

-----------------------------------------------------------------------------
(* Python string and os.path primitives used by the program *)

\* str.startswith
startswith(s, prefix) ==
  /\ Len(prefix) <= Len(s)
  /\ SubSeq(s, 1, Len(prefix)) = prefix

\* str.replace for a one-character pattern
RECURSIVE replace(_, _, _)
replace(s, old, new) ==
  IF s = <<>> THEN <<>>
  ELSE <<(IF Head(s) = old THEN new ELSE Head(s))>> \o replace(Tail(s), old, new)

RECURSIVE split_acc(_, _, _)
split_acc(s, cur, acc) ==
  IF s = <<>> THEN Append(acc, cur)
  ELSE IF Head(s) = "/" THEN split_acc(Tail(s), <<>>, Append(acc, cur))
  ELSE split_acc(Tail(s), Append(cur, Head(s)), acc)

\* str.split('/')
split(s) ==
  split_acc(s, <<>>, <<>>)

\* '/'.join(comps)
RECURSIVE slash_join(_)
slash_join(comps) ==
  IF comps = <<>> THEN <<>>
  ELSE IF Len(comps) = 1 THEN comps[1]
  ELSE comps[1] \o <<"/">> \o slash_join(Tail(comps))

\* os.path.join for two components (posixpath)
path_join(a, b) ==
  IF b # <<>> /\ Head(b) = "/" THEN b
  ELSE IF a = <<>> \/ a[Len(a)] = "/" THEN a \o b
  ELSE a \o <<"/">> \o b

\* the component loop of posixpath.normpath
RECURSIVE norm_comps(_, _, _)
norm_comps(comps, new_comps, initial_slashes) ==
  IF comps = <<>> THEN new_comps
  ELSE LET comp == Head(comps)
           rest == Tail(comps)
       IN IF comp = <<>> \/ comp = <<".">>
          THEN norm_comps(rest, new_comps, initial_slashes)
          ELSE IF \/ comp # <<".", ".">>
                  \/ (initial_slashes = 0 /\ new_comps = <<>>)
                  \/ (new_comps # <<>> /\ new_comps[Len(new_comps)] = <<".", ".">>)
          THEN norm_comps(rest, Append(new_comps, comp), initial_slashes)
          ELSE IF new_comps # <<>>
          THEN norm_comps(rest, SubSeq(new_comps, 1, Len(new_comps) - 1), initial_slashes)
          ELSE norm_comps(rest, new_comps, initial_slashes)

\* posixpath.normpath
normpath(path) ==
  IF path = <<>> THEN <<".">>
  ELSE LET initial_slashes ==
             IF Head(path) # "/" THEN 0
             ELSE IF startswith(path, <<"/", "/">>) /\ ~startswith(path, <<"/", "/", "/">>)
             THEN 2 ELSE 1
           body == slash_join(norm_comps(split(path), <<>>, initial_slashes))
           res == [i \in 1..initial_slashes |-> "/"] \o body
       IN IF res = <<>> THEN <<".">> ELSE res

\* the working directory of the process; every path the program builds is
\* absolute, so it is only the fallback of abspath
cwd ==
  <<"/">>

\* os.path.abspath
abspath(path) ==
  IF path # <<>> /\ Head(path) = "/" THEN normpath(path)
  ELSE normpath(path_join(cwd, path))

\* os.path.dirname
dirname(path) ==
  LET idx == {i \in 1..Len(path) : path[i] = "/"}
      last == IF idx = {} THEN 0 ELSE CHOOSE i \in idx : \A j \in idx : j <= i
      head == SubSeq(path, 1, last)
  IN IF head # <<>> /\ \E i \in 1..Len(head) : head[i] # "/"
     THEN LET nz == {i \in 1..Len(head) : head[i] # "/"}
          IN SubSeq(head, 1, CHOOSE i \in nz : \A j \in nz : j <= i)
     ELSE head

Digits ==
  <<"0", "1", "2", "3", "4", "5", "6", "7", "8", "9">>

\* str(n) for n >= 0
RECURSIVE str(_)
str(n) ==
  IF n < 10 THEN <<Digits[n + 1]>>
  ELSE str(n \div 10) \o <<Digits[(n % 10) + 1]>>

digit_value(c) ==
  CHOOSE d \in 0..9 : Digits[d + 1] = c

\* int(s) for a string of decimal digits
RECURSIVE int(_)
int(s) ==
  IF Len(s) = 1 THEN digit_value(s[1])
  ELSE 10 * int(SubSeq(s, 1, Len(s) - 1)) + digit_value(s[Len(s)])

-----------------------------------------------------------------------------
(* Path naming of a box, lines 54, 141-167 *)

BOXES_DIR ==
  path_join(INSTALL_DIR, <<"b", "o", "x", "e", "s">>)

escape_box_name(box_name) ==
  replace(box_name, "/", "_")

get_box_dir_name(box_name) ==
  escape_box_name(box_name)

get_box_dir_path(box_name) ==
  LET boxes_dir == path_join(INSTALL_DIR, <<"b", "o", "x", "e", "s">>)
  IN path_join(boxes_dir, get_box_dir_name(box_name))

get_box_json_path(box_name) ==
  get_box_dir_path(box_name) \o <<".", "j", "s", "o", "n">>

-----------------------------------------------------------------------------
(* Inputs of the command line *)

\* box names given as target_box / box: an ordinary name with a separator,
\* and the parent-directory name
TargetBoxes ==
  { <<"o", "/", "b">>, <<".", ".">> }

\* box ids: two plain ids, an id that climbs out of the box directory to a
\* sibling whose name extends the box directory's name, and an id that climbs
\* out of the boxes directory
BoxIds ==
  { <<"v", "1">>, <<"v", "2">>,
    <<".", ".", "/", "o", "_", "b", "x">>,
    <<".", ".", "/", ".", ".", "/", "e">> }

\* values of the prune argument n (type=int, so negative values parse)
KeepCounts ==
  (0 - MaxNegKeep)..MaxKeep

EmptyMap ==
  [x \in {} |-> x]

\* the file system after installation, before any box was created
Init ==
  /\ pc = "idle"
  /\ op = [verb |-> "none", box |-> <<>>, box_id |-> <<>>, n |-> 0]
  /\ dirs = {INSTALL_DIR, BOXES_DIR}
  /\ files = {}
  /\ manifests = EmptyMap
  /\ full_box_path = <<>>
  /\ new_box_target = <<>>
  /\ boxes_to_prune = <<>>
  /\ outcome = "none"
  /\ start = [dirs |-> {INSTALL_DIR, BOXES_DIR}, files |-> {}, manifests |-> EmptyMap]
  /\ removed = {}
  /\ issued = <<>>
  /\ allCompleted = TRUE

\* os.path.exists
exists(path) ==
  path \in dirs \/ path \in files \/ path \in DOMAIN manifests

\* os.makedirs: the directory and every missing ancestor
RECURSIVE makedirs(_, _)
makedirs(d, path) ==
  IF path \in d \/ path = <<>> \/ path = <<"/">> THEN d
  ELSE makedirs(d, dirname(path)) \cup {path}

\* a raised exception ends the process
raise(kind) ==
  /\ pc' = "idle"
  /\ outcome' = kind
  /\ allCompleted' = FALSE

-----------------------------------------------------------------------------
(* 'create' verb *)

\* create_box up to the call of update_box_list: the build directory is set
\* up and the external builder runs; built = FALSE stands for any failure of
\* that stage (template directory world readable, missing provisioning
\* script, vagrant exiting non-zero), which raises before update_box_list
create_box(target_box, box_id, built) ==
  /\ pc = "idle"
  /\ Len(issued) < MaxAppends
  /\ op' = [verb |-> "create", box |-> target_box, box_id |-> box_id, n |-> 0]
  /\ start' = [dirs |-> dirs, files |-> files, manifests |-> manifests]
  /\ removed' = {}
  /\ IF built
     THEN /\ pc' = "update_box_list"
          /\ outcome' = "running"
          /\ UNCHANGED allCompleted
     ELSE raise("CalledProcessError")
  /\ UNCHANGED <<dirs, files, manifests, full_box_path, new_box_target,
                 boxes_to_prune, issued>>

\* update_box_list, lines 314-323: resolve and check the box directory, then
\* create it if it does not exist
update_box_list_dir ==
  /\ pc = "update_box_list"
  /\ LET p == abspath(get_box_dir_path(op.box))
     IN /\ full_box_path' = p
        /\ IF ~startswith(p, BOXES_DIR)
           THEN /\ raise("PathError")
                /\ UNCHANGED dirs
           ELSE /\ dirs' = IF ~exists(p) THEN makedirs(dirs, p) ELSE dirs
                /\ pc' = "copy"
                /\ UNCHANGED <<outcome, allCompleted>>
  /\ UNCHANGED <<op, files, manifests, new_box_target, boxes_to_prune, start,
                 removed, issued>>

\* update_box_list, lines 325-345: resolve and check the target file, hash
\* the built box and copy it to the target
update_box_list_copy ==
  /\ pc = "copy"
  /\ LET new_box_filename == op.box_id \o <<".", "b", "o", "x">>
         t == abspath(path_join(full_box_path, new_box_filename))
     IN /\ new_box_target' = t
        /\ IF ~startswith(t, full_box_path)
           THEN /\ raise("PathError")
                /\ UNCHANGED files
           ELSE IF dirname(t) \in dirs /\ t \notin dirs
           THEN /\ files' = files \cup {t}
                /\ pc' = "update_box_json"
                /\ UNCHANGED <<outcome, allCompleted>>
           ELSE /\ raise("IOError")
                /\ UNCHANGED files
  /\ UNCHANGED <<op, dirs, manifests, full_box_path, boxes_to_prune, start,
                 removed, issued>>

\* lexicographic order of strings, as Python compares str values
RECURSIVE str_less(_, _)
str_less(s, t) ==
  IF t = <<>> THEN FALSE
  ELSE IF s = <<>> THEN TRUE
  ELSE IF Head(s) # Head(t) THEN digit_value(Head(s)) < digit_value(Head(t))
  ELSE str_less(Tail(s), Tail(t))

\* a slip: the stored strings are compared without int(), so "9" beats "10"
RECURSIVE latest_version_n_lex(_)
latest_version_n_lex(versions) ==
  IF versions = <<>> THEN 0
  ELSE LET latest == latest_version_n_lex(SubSeq(versions, 1, Len(versions) - 1))
           version == versions[Len(versions)].version
       IN IF latest = 0 \/ str_less(str(latest), version) THEN int(version) ELSE latest

\* the scan for the highest version, lines 393-397
RECURSIVE latest_version_n(_)
latest_version_n(versions) ==
  IF versions = <<>> THEN 0
  ELSE LET latest == latest_version_n(SubSeq(versions, 1, Len(versions) - 1))
           version_n == int(versions[Len(versions)].version)
       IN IF version_n > latest THEN version_n ELSE latest

\* a slip: the number of entries instead of the highest version
new_version_n_count(m, box_json_filename) ==
  IF box_json_filename \notin DOMAIN m THEN 1
  ELSE Len(m[box_json_filename].versions) + 1

\* lines 383-398
new_version_n(m, box_json_filename) ==
  IF box_json_filename \notin DOMAIN m THEN 1
  ELSE latest_version_n(m[box_json_filename].versions) + 1

\* update_box_json: the content of the JSON files after the call
update_box_json(m, box_json_filename, box_name, box_url, box_sha1) ==
  LET box_file_dict ==
        IF box_json_filename \notin DOMAIN m
        THEN [name |-> box_name, versions |-> <<>>]
        ELSE m[box_json_filename]
      new_version ==
        [version |-> str(new_version_n(m, box_json_filename)),
         providers |-> << [name |-> "virtualbox", url |-> box_url,
                           checksum_type |-> "sha1", checksum |-> box_sha1] >>]
      written == [box_file_dict EXCEPT !.versions = Append(@, new_version)]
  IN [p \in DOMAIN m \cup {box_json_filename} |->
        IF p = box_json_filename THEN written ELSE m[p]]

\* update_box_list, lines 347-358: build the URL and add the version
update_box_list_json ==
  /\ pc = "update_box_json"
  /\ LET box_json_filename == get_box_json_path(op.box)
         new_box_filename == op.box_id \o <<".", "b", "o", "x">>
         new_box_url == VAGRANT_BOXES_PUBLIC_URL \o <<"/">>
                          \o get_box_dir_name(op.box) \o <<"/">> \o new_box_filename
         fresh == \/ box_json_filename \notin DOMAIN manifests
                  \/ manifests[box_json_filename].versions = <<>>
         after == update_box_json(manifests, box_json_filename, op.box,
                                  new_box_url, "sha1(package.box)")
         added == after[box_json_filename].versions[Len(after[box_json_filename].versions)]
     IN /\ manifests' = after
        /\ issued' = Append(issued, [path |-> box_json_filename,
                                     n |-> int(added.version),
                                     fresh |-> fresh])
  /\ pc' = "idle"
  /\ outcome' = "ok"
  /\ UNCHANGED <<op, dirs, files, full_box_path, new_box_target,
                 boxes_to_prune, start, removed, allCompleted>>

-----------------------------------------------------------------------------
(* 'prune' verb *)

\* list.sort() followed by list.reverse(), lines 188-189
RECURSIVE insert_desc(_, _)
insert_desc(sorted, x) ==
  IF sorted = <<>> THEN <<x>>
  ELSE IF x >= Head(sorted) THEN <<x>> \o sorted
  ELSE <<Head(sorted)>> \o insert_desc(Tail(sorted), x)

RECURSIVE sort_reverse(_)
sort_reverse(versions) ==
  IF versions = <<>> THEN <<>>
  ELSE insert_desc(sort_reverse(Tail(versions)), Head(versions))

\* the Python slice seq[0:n]: a negative n counts from the end
slice_to(seq, n) ==
  LET stop == IF n < 0
              THEN (IF Len(seq) + n < 0 THEN 0 ELSE Len(seq) + n)
              ELSE (IF n > Len(seq) THEN Len(seq) ELSE n)
  IN SubSeq(seq, 1, stop)

\* lines 183-191
keep_versions(entries, n) ==
  LET versions == [i \in 1..Len(entries) |-> int(entries[i].version)]
  IN slice_to(sort_reverse(versions), n)

is_kept(entry, keep) ==
  \E i \in 1..Len(keep) : keep[i] = int(entry.version)

\* lines 193-200
versions_to_keep(entries, n) ==
  LET keep == keep_versions(entries, n)
  IN SelectSeq(entries, LAMBDA version : is_kept(version, keep))

\* lines 193-207
RECURSIVE to_prune(_, _, _)
to_prune(entries, keep, box_dir) ==
  IF entries = <<>> THEN <<>>
  ELSE LET version == Head(entries)
           box_url == version.providers[1].url
           segments == split(box_url)
           box_filename == segments[Len(segments)]
       IN IF is_kept(version, keep)
          THEN to_prune(Tail(entries), keep, box_dir)
          ELSE << [version |-> int(version.version),
                   filename |-> path_join(box_dir, box_filename)] >>
                 \o to_prune(Tail(entries), keep, box_dir)

\* a slip: the rewritten list is not written back before the files are removed
write_versions_skipped(m, box_json_filename, kept) ==
  m

\* lines 209-211
write_versions(m, box_json_filename, kept) ==
  [m EXCEPT ![box_json_filename].versions = kept]

\* prune_boxes, lines 174-211: load the list, select, write the list back
prune_boxes(box, n) ==
  /\ pc = "idle"
  /\ op' = [verb |-> "prune", box |-> box, box_id |-> <<>>, n |-> n]
  /\ start' = [dirs |-> dirs, files |-> files, manifests |-> manifests]
  /\ removed' = {}
  /\ LET box_dir == get_box_dir_path(box)
         box_json_filename == get_box_json_path(box)
     IN IF ~exists(box_json_filename)
        THEN /\ raise("Exception")
             /\ UNCHANGED <<manifests, boxes_to_prune>>
        ELSE LET entries == manifests[box_json_filename].versions
                 todo == to_prune(entries, keep_versions(entries, n), box_dir)
             IN /\ manifests' = write_versions(manifests, box_json_filename,
                                               versions_to_keep(entries, n))
                /\ boxes_to_prune' = todo
                /\ pc' = IF todo = <<>> THEN "idle" ELSE "remove"
                /\ outcome' = IF todo = <<>> THEN "ok" ELSE "running"
                /\ UNCHANGED allCompleted
  /\ UNCHANGED <<dirs, files, full_box_path, new_box_target, issued>>

\* prune_boxes, lines 213-217: one iteration of the removal loop; os.remove
\* raises when the file does not exist
prune_remove ==
  /\ pc = "remove"
  /\ LET filename == abspath(Head(boxes_to_prune).filename)
     IN IF filename \in files
        THEN /\ files' = files \ {filename}
             /\ removed' = removed \cup {filename}
             /\ boxes_to_prune' = Tail(boxes_to_prune)
             /\ pc' = IF Tail(boxes_to_prune) = <<>> THEN "idle" ELSE "remove"
             /\ outcome' = IF Tail(boxes_to_prune) = <<>> THEN "ok" ELSE "running"
             /\ UNCHANGED allCompleted
        ELSE /\ raise("OSError")
             /\ UNCHANGED <<files, removed, boxes_to_prune>>
  /\ UNCHANGED <<op, dirs, manifests, full_box_path, new_box_target, start,
                 issued>>

-----------------------------------------------------------------------------
(* The program run any number of times, one process at a time, lines 102-105 *)

Next ==
  \/ \E target_box \in TargetBoxes, box_id \in BoxIds, built \in BOOLEAN :
       create_box(target_box, box_id, built)
  \/ update_box_list_dir
  \/ update_box_list_copy
  \/ update_box_list_json
  \/ \E box \in TargetBoxes, n \in KeepCounts : prune_boxes(box, n)
  \/ prune_remove

Spec ==
  Init /\ [][Next]_vars

-----------------------------------------------------------------------------
(* update_box_json applied to the version lists a box can have *)

RECURSIVE ascending(_)
ascending(S) ==
  IF S = {} THEN <<>>
  ELSE LET least == CHOOSE x \in S : \A y \in S : x <= y
       IN <<least>> \o ascending(S \ {least})

LedgerBox ==
  <<"o", "/", "b">>

\* the entry create writes for box id 'v<n>' when it is given version n
published(n) ==
  [version |-> str(n),
   providers |-> << [name |-> "virtualbox",
                     url |-> VAGRANT_BOXES_PUBLIC_URL \o <<"/">>
                               \o get_box_dir_name(LedgerBox) \o <<"/", "v">>
                               \o str(n) \o <<".", "b", "o", "x">>,
                     checksum_type |-> "sha1",
                     checksum |-> "sha1(package.box)"] >>]

stored(n) ==
  path_join(get_box_dir_path(LedgerBox), <<"v">> \o str(n) \o <<".", "b", "o", "x">>)

\* create has copied the new box and is about to call update_box_json; the
\* JSON file is absent, or lists what earlier creates and prunes left: a
\* strictly ascending list of versions, possibly with gaps, possibly empty
InitLedger ==
  \E S \in SUBSET (1..MaxVersion), present \in BOOLEAN,
     box_id \in { <<"v", "1">>, <<"v", "2">> } :
    /\ Cardinality(S) <= MaxLedgerLen
    /\ present \/ S = {}
    /\ LET box_dir == get_box_dir_path(LedgerBox)
           target == path_join(box_dir, box_id \o <<".", "b", "o", "x">>)
           listed == ascending(S)
           m == IF present
                THEN [p \in {get_box_json_path(LedgerBox)} |->
                        [name |-> LedgerBox,
                         versions |-> [i \in 1..Len(listed) |-> published(listed[i])]]]
                ELSE EmptyMap
           before == {stored(n) : n \in S}
       IN /\ pc = "update_box_json"
          /\ op = [verb |-> "create", box |-> LedgerBox, box_id |-> box_id, n |-> 0]
          /\ dirs = {INSTALL_DIR, BOXES_DIR, box_dir}
          /\ files = before \cup {target}
          /\ manifests = m
          /\ full_box_path = box_dir
          /\ new_box_target = target
          /\ boxes_to_prune = <<>>
          /\ outcome = "running"
          /\ start = [dirs |-> {INSTALL_DIR, BOXES_DIR, box_dir}, files |-> before,
                      manifests |-> m]
          /\ removed = {}
          /\ issued = <<>>
          /\ allCompleted = TRUE

NextLedger ==
  update_box_list_json

SpecLedger ==
  InitLedger /\ [][NextLedger]_vars

-----------------------------------------------------------------------------
(* Vocabulary of the properties *)

\* containment by whole path segments
IsUnder(path, dir) ==
  \/ path = dir
  \/ /\ Len(path) > Len(dir)
     /\ SubSeq(path, 1, Len(dir)) = dir
     /\ path[Len(dir) + 1] = "/"

OpJson ==
  get_box_json_path(op.box)

\* the list of a JSON file in a file system content, empty when absent
ListedIn(m, json) ==
  IF json \in DOMAIN m THEN m[json].versions ELSE <<>>

VersionOf(entry) ==
  int(entry.version)

\* the file prune takes to be the artifact of an entry of the list at json:
\* the last segment of the URL inside the directory named like the list
ArtifactOf(json, entry) ==
  LET box_dir == SubSeq(json, 1, Len(json) - 5)
      segments == split(entry.providers[1].url)
  IN box_dir \o <<"/">> \o segments[Len(segments)]

\* the entries with the k highest versions, in their order in the list
Highest(entries, k) ==
  SelectSeq(entries,
    LAMBDA e : Cardinality({j \in 1..Len(entries) :
                              VersionOf(entries[j]) > VersionOf(e)}) < k)

Elems(seq) ==
  {seq[i] : i \in 1..Len(seq)}

CreateSucceeded ==
  op.verb = "create" /\ pc = "idle" /\ outcome = "ok"

CreateCopied ==
  op.verb = "create" /\ (pc = "update_box_json" \/ (pc = "idle" /\ outcome = "ok"))

PruneLoaded ==
  op.verb = "prune" /\ OpJson \in DOMAIN start.manifests

-----------------------------------------------------------------------------
(* Properties *)

\* C1: create either copies nothing, or copies the box to a path equal to or
\* nested under the box directory (by whole path segments), which is equal to
\* or nested under BOXES_DIR; no name or id makes it write outside the box
\* directory.
C1_CopyStaysInBoxDir ==
  /\ CreateCopied =>
       /\ new_box_target \in files
       /\ IsUnder(new_box_target, full_box_path)
       /\ IsUnder(full_box_path, BOXES_DIR)
  /\ (op.verb = "create" /\ ~CreateCopied) => files = start.files

\* C2: after completed creates and prunes every listed entry has its artifact
\* file in the box directory, and prune never removes a file that an entry it
\* retains refers to, also when a box id is used more than once.
C2_ListAndFilesConsistent ==
  /\ (allCompleted /\ pc = "idle") =>
       \A json \in DOMAIN manifests :
         \A e \in Elems(manifests[json].versions) : ArtifactOf(json, e) \in files
  /\ PruneLoaded =>
       \A e \in Elems(manifests[OpJson].versions) : ArtifactOf(OpJson, e) \notin removed

\* C3: prune with a negative n does what prune with n = 0 does: the list is
\* rewritten empty and, once prune has finished, no file of an entry is left.
C3_NegativeKeepsNothing ==
  (PruneLoaded /\ op.n < 0) =>
    /\ manifests[OpJson].versions = <<>>
    /\ (pc = "idle" /\ outcome = "ok") =>
         \A e \in Elems(start.manifests[OpJson].versions) :
           ArtifactOf(OpJson, e) \notin files

\* C4: for n >= 0 prune retains exactly the entries with the min(n, length)
\* highest versions in their original order, and when it ends it has deleted
\* exactly the artifact files of the other entries.
C4_KeepsHighestDeletesRest ==
  (PruneLoaded /\ op.n >= 0) =>
    LET entries == start.manifests[OpJson].versions
        kept == Highest(entries, op.n)
        others == Elems(entries) \ Elems(kept)
    IN /\ manifests[OpJson].versions = kept
       /\ pc = "idle" => files = start.files \ {ArtifactOf(OpJson, e) : e \in others}

\* the number of entries the slice versions[0:n] selects from a list of
\* the given length
SliceCount(length, n) ==
  IF n < 0 THEN (IF length + n < 0 THEN 0 ELSE length + n)
  ELSE (IF n > length THEN length ELSE n)

\* C5: during prune the rewritten list is on disk before the first file is
\* deleted: whenever prune has deleted at least one file (also when it then
\* stopped on a missing file), the list holds exactly the retained entries,
\* so no entry of a removed version is listed once its file is gone.
C5_ListWrittenBeforeRemoval ==
  (PruneLoaded /\ removed # {}) =>
    LET entries == start.manifests[OpJson].versions
    IN manifests[OpJson].versions = Highest(entries, SliceCount(Len(entries), op.n))

\* prune is in the middle of its removals: one file is gone, more are to go,
\* and an entry was retained
C5_Witness ==
  /\ PruneLoaded
  /\ pc = "remove"
  /\ removed # {}
  /\ manifests[OpJson].versions # <<>>

MaxOf(S) ==
  CHOOSE x \in S : \A y \in S : y <= x

\* s is the decimal numeral of n
IsDecimalOf(s, n) ==
  /\ Len(s) >= 1
  /\ \A i \in 1..Len(s) : \E d \in 1..10 : Digits[d] = s[i]
  /\ Len(s) > 1 => s[1] # "0"
  /\ int(s) = n

\* C6: the version update_box_json assigns is 1 when the JSON file is absent
\* or lists nothing, otherwise 1 + the highest listed version read as an
\* integer; it exceeds every listed version and is stored as a decimal string.
C6_NextVersion ==
  CreateSucceeded =>
    LET old == ListedIn(start.manifests, OpJson)
        new == manifests[OpJson].versions
        expected == IF old = <<>> THEN 1
                    ELSE 1 + MaxOf({VersionOf(old[i]) : i \in 1..Len(old)})
    IN /\ Len(new) = Len(old) + 1
       /\ SubSeq(new, 1, Len(old)) = old
       /\ IsDecimalOf(new[Len(new)].version, expected)
       /\ \A i \in 1..Len(old) : VersionOf(new[Len(new)]) > VersionOf(old[i])

\* a version of two digits was assigned after one-digit versions with a gap
C6_Witness ==
  /\ CreateSucceeded
  /\ LET new == manifests[OpJson].versions
     IN /\ Len(new) >= 3
        /\ Len(new[Len(new)].version) = 2
        /\ Len(new[1].version) = 1
        /\ VersionOf(new[1]) > 1

\* C7: no two entries of a list have the same version number.
C7_VersionsUnique ==
  \A json \in DOMAIN manifests :
    LET entries == manifests[json].versions
    IN \A i, j \in 1..Len(entries) :
         i # j => VersionOf(entries[i]) # VersionOf(entries[j])

\* a create has added to a list that a prune had left with a gap
C7_Witness ==
  /\ CreateSucceeded
  /\ LET new == manifests[OpJson].versions
     IN /\ Len(new) >= 2
        /\ VersionOf(new[1]) > 1
        /\ Len(issued) > Len(new)

\* C8 as stated: every version number issued for a list is greater than every
\* number issued for it earlier, also when the earlier entry has been pruned.
C8_NeverReissued ==
  \A i, j \in 1..Len(issued) :
    (i < j /\ issued[i].path = issued[j].path) => issued[i].n < issued[j].n

\* C8 amended: every version number issued for a list is greater than every
\* number issued for it since the list was last absent or empty; a prune that
\* leaves the list empty restarts the numbering at 1.
C8_IncreasingSinceEmpty ==
  \A i, j \in 1..Len(issued) :
    (i < j /\ issued[i].path = issued[j].path) =>
      \/ \E k \in (i + 1)..j : issued[k].path = issued[j].path /\ issued[k].fresh
      \/ issued[i].n < issued[j].n

\* numbers were issued past a gap left by a prune, and after the list was
\* emptied number 1 was issued again
C8_Witness ==
  /\ Len(issued) >= 3
  /\ ~issued[2].fresh
  /\ issued[Len(issued)].fresh
  /\ issued[Len(issued)].n = 1
  /\ pc = "idle"

\* C9: when update_box_list rejects a path, nothing has been changed: no
\* directory created, no file copied, the JSON files as they were.
C9_RejectBeforeMutation ==
  (op.verb = "create" /\ outcome = "PathError") =>
    /\ dirs = start.dirs
    /\ files = start.files
    /\ manifests = start.manifests

\* C10: the URL recorded by a successful create is
\* <public url>/<escaped box name>/<box id>.box, what follows the public URL
\* is the stored file's path relative to BOXES_DIR, and the file prune derives
\* from the URL is the stored file.
C10_UrlNamesStoredFile ==
  CreateSucceeded =>
    LET new == manifests[OpJson].versions
        url == new[Len(new)].providers[1].url
        base == Len(VAGRANT_BOXES_PUBLIC_URL)
    IN /\ url = VAGRANT_BOXES_PUBLIC_URL \o <<"/">> \o escape_box_name(op.box)
                  \o <<"/">> \o op.box_id \o <<".", "b", "o", "x">>
       /\ BOXES_DIR \o SubSeq(url, base + 1, Len(url)) = new_box_target
       /\ ArtifactOf(OpJson, new[Len(new)]) = new_box_target

====
